---- MODULE Spec2Model ----
(***************************************************************************)
(* Dump ingestion and columnar normalisation pipeline of stockdatadump     *)
(* (python/stockdatadump/storage.py and the convert commands of app.py).   *)
(*                                                                         *)
(* Bytes are integers 0..255, text is a sequence of Unicode code points,   *)
(* a DataFrame / Arrow table is a record [n, cols] with n the row count    *)
(* and cols a sequence of columns [name, dtype, cells].                    *)
(***************************************************************************)
EXTENDS Integers, Sequences, FiniteSets, TLC

VARIABLES
    cmd,        \* the entry point being run
    pc,         \* position inside it
    input,      \* its arguments (dumps, archive, hint, output format, ...)
    raw,        \* bytes returned by _decompress_zst
    text,       \* raw.decode("utf-8", errors="ignore")
    fmt,        \* fmt_hint or _detect_format(text[:1024])
    frames,     \* frames / dfs collected so far
    idx,        \* loop position (next path / next archive entry)
    combined,   \* result of pd.concat
    table,      \* the pa.Table handed from stage to stage
    result,     \* value returned by the entry point
    err,        \* exception that ended the run ("" when none)
    fs,         \* the file at the destination path: [state, data]
    once,       \* squeeze_numeric(table)
    twice       \* squeeze_numeric(squeeze_numeric(table))

vars == <<cmd, pc, input, raw, text, fmt, frames, idx, combined, table, result, err, fs, once, twice>>

(***************************************************************************)
(* Values that may raise.                                                  *)
(***************************************************************************)
Ok(v) == [ok |-> TRUE, err |-> "", val |-> v]

Raise(e) == [ok |-> FALSE, err |-> e, val |-> <<>>]

None == "<None>"

(***************************************************************************)
(* Python str helpers.                                                     *)
(***************************************************************************)
\* str.isspace() for one character (the ASCII and Latin-1 whitespace).
IsSpace(c) == c \in {9, 10, 11, 12, 13, 28, 29, 30, 31, 32, 133, 160}

\* The recursive helpers below halve their argument, so that texts of more
\* than a thousand characters are evaluated without deep recursion.
RECURSIVE lstrip(_)
lstrip(s) ==
    IF Len(s) = 0 THEN s
    ELSE IF Len(s) = 1 THEN (IF IsSpace(s[1]) THEN <<>> ELSE s)
    ELSE LET m == Len(s) \div 2
             l == lstrip(SubSeq(s, 1, m))
         IN IF l = <<>> THEN lstrip(SubSeq(s, m + 1, Len(s)))
            ELSE l \o SubSeq(s, m + 1, Len(s))

RECURSIVE rstrip(_)
rstrip(s) ==
    IF Len(s) = 0 THEN s
    ELSE IF Len(s) = 1 THEN (IF IsSpace(s[1]) THEN <<>> ELSE s)
    ELSE LET m == Len(s) \div 2
             r == rstrip(SubSeq(s, m + 1, Len(s)))
         IN IF r = <<>> THEN rstrip(SubSeq(s, 1, m))
            ELSE SubSeq(s, 1, m) \o r

strip(s) == rstrip(lstrip(s))

\* s[:k]
Prefix(s, k) == SubSeq(s, 1, IF Len(s) < k THEN Len(s) ELSE k)

startswith(s, p) == Len(s) >= Len(p) /\ SubSeq(s, 1, Len(p)) = p

endswith(s, p) == Len(s) >= Len(p) /\ SubSeq(s, Len(s) - Len(p) + 1, Len(s)) = p

\* str.split(sep) for a one-character separator.
RECURSIVE split(_, _)
split(s, sep) ==
    IF Len(s) = 0 THEN << <<>> >>
    ELSE IF Len(s) = 1 THEN (IF s[1] = sep THEN << <<>>, <<>> >> ELSE <<s>>)
    ELSE LET m == Len(s) \div 2
             l == split(SubSeq(s, 1, m), sep)
             r == split(SubSeq(s, m + 1, Len(s)), sep)
         IN SubSeq(l, 1, Len(l) - 1) \o <<l[Len(l)] \o r[1]>> \o Tail(r)

upper(s) == [i \in 1..Len(s) |-> IF s[i] \in 97..122 THEN s[i] - 32 ELSE s[i]]

lower(s) == [i \in 1..Len(s) |-> IF s[i] \in 65..90 THEN s[i] + 32 ELSE s[i]]

(***************************************************************************)
(* bytes.decode("utf-8", errors=...)                                       *)
(***************************************************************************)
IsCont(b) == b \in 128..191

\* Length of the well-formed UTF-8 sequence that starts at bs[p], 0 when
\* none does.
SeqLenAt(bs, p) ==
    LET b == bs[p]
        n == Len(bs) - p + 1
    IN  IF b < 128 THEN 1
        ELSE IF b \in 194..223 /\ n >= 2 /\ IsCont(bs[p + 1]) THEN 2
        ELSE IF b \in 224..239 /\ n >= 3 /\ IsCont(bs[p + 2])
                /\ bs[p + 1] \in (IF b = 224 THEN 160..191
                                  ELSE IF b = 237 THEN 128..159 ELSE 128..191) THEN 3
        ELSE IF b \in 240..244 /\ n >= 4 /\ IsCont(bs[p + 2]) /\ IsCont(bs[p + 3])
                /\ bs[p + 1] \in (IF b = 240 THEN 144..191
                                  ELSE IF b = 244 THEN 128..143 ELSE 128..191) THEN 4
        ELSE 0

CodePointAt(bs, p) ==
    LET k == SeqLenAt(bs, p) IN
    CASE k = 1 -> bs[p]
      [] k = 2 -> (bs[p] - 192) * 64 + (bs[p + 1] - 128)
      [] k = 3 -> (bs[p] - 224) * 4096 + (bs[p + 1] - 128) * 64 + (bs[p + 2] - 128)
      [] k = 4 -> (bs[p] - 240) * 262144 + (bs[p + 1] - 128) * 4096
                  + (bs[p + 2] - 128) * 64 + (bs[p + 3] - 128)

\* bs[p] is a continuation byte of a well-formed sequence that starts
\* at most three bytes earlier
Covered(bs, p) ==
    \E q \in (IF p > 3 THEN p - 3 ELSE 1)..(p - 1) :
        ~IsCont(bs[q]) /\ q + SeqLenAt(bs, q) > p

RECURSIVE decode_range(_, _, _)
\* A well-formed sequence holds no byte below 128 or above 191 after its
\* first, so every such byte starts a decoding attempt; errors="ignore"
\* drops each byte that neither starts nor continues a well-formed
\* sequence and goes on with the next byte.
decode_range(bs, lo, hi) ==
    IF lo > hi THEN <<>>
    ELSE IF lo = hi
    THEN (IF ~IsCont(bs[lo]) /\ SeqLenAt(bs, lo) > 0 THEN <<CodePointAt(bs, lo)>> ELSE <<>>)
    ELSE LET m == (lo + hi) \div 2
         IN decode_range(bs, lo, m) \o decode_range(bs, m + 1, hi)

decode_ignore(bs) == decode_range(bs, 1, Len(bs))

valid_utf8(bs) ==
    \A p \in 1..Len(bs) :
        IF IsCont(bs[p]) THEN Covered(bs, p) ELSE SeqLenAt(bs, p) > 0

decode(bs, errors) ==
    IF errors = "ignore" THEN Ok(decode_ignore(bs))
    ELSE IF valid_utf8(bs) THEN Ok(decode_ignore(bs))
    ELSE Raise("UnicodeDecodeError")

(***************************************************************************)
(* _detect_format                                                          *)
(***************************************************************************)
\* the detection without the lstrip
DetectUnstripped(sample) ==
    IF startswith(sample, <<123>>) \/ startswith(sample, <<91>>) THEN "json" ELSE "csv"

_detect_format(sample) ==
    LET head == lstrip(sample) IN
    IF startswith(head, <<123>>) \/ startswith(head, <<91>>) THEN "json" ELSE "csv"

(***************************************************************************)
(* Cell values.  A number is sign and magnitude, the magnitude held in two *)
(* limbs (hi * Base + lo) so that values beyond the 53 bits of a float64   *)
(* mantissa stay representable, times                                      *)
(* 10^-d.  k is the Python type of the value: "int", "float", "str", or    *)
(* "nan" for the missing-value marker (NaN / None / Arrow null).           *)
(***************************************************************************)
Base == 2^27

NaN == [k |-> "nan", neg |-> FALSE, hi |-> 0, lo |-> 0, d |-> 0, s |-> <<>>]

Str(t) == [k |-> "str", neg |-> FALSE, hi |-> 0, lo |-> 0, d |-> 0, s |-> t]

Num(kind, neg, hi, lo, d) ==
    [k |-> kind, neg |-> neg /\ (hi # 0 \/ lo # 0), hi |-> hi, lo |-> lo, d |-> d, s |-> <<>>]

IntCell(neg, hi, lo) == Num("int", neg, hi, lo, 0)

\* number of bits of the mantissa that do not fit in the 53 of a float64:
\* the magnitude has 27 + (bits of hi) bits
ExcessBits(hi) ==
    IF hi < 2^26 THEN 0
    ELSE IF hi < 2^27 THEN 1
    ELSE IF hi < 2^28 THEN 2
    ELSE IF hi < 2^29 THEN 3
    ELSE IF hi < 2^30 THEN 4
    ELSE 5

\* lo rounded to the nearest multiple of q, ties to the even multiple
RoundLimb(lo, q) ==
    LET down == lo - (lo % q)
        twice_r == 2 * (lo % q)
    IN IF twice_r < q THEN down
       ELSE IF twice_r > q THEN down + q
       ELSE IF (down \div q) % 2 = 0 THEN down ELSE down + q

\* int -> float64: exact below 2^53, rounded to 53 significant bits above
ToFloat(c) ==
    IF c.k # "int" THEN c
    ELSE LET lo == RoundLimb(c.lo, 2^ExcessBits(c.hi))
         IN IF lo = Base THEN [c EXCEPT !.k = "float", !.hi = c.hi + 1, !.lo = 0]
            ELSE [c EXCEPT !.k = "float", !.lo = lo]

IsDigit(c) == c \in 48..57

AllDigits(s) == s # <<>> /\ \A i \in 1..Len(s) : IsDigit(s[i])

RECURSIVE Magnitude(_, _, _)
\* <<hi, lo>> of the decimal digit string ds appended to the value hi*Base+lo
Magnitude(ds, hi, lo) ==
    IF ds = <<>> THEN <<hi, lo>>
    ELSE LET t == lo * 10 + (Head(ds) - 48)
         IN Magnitude(Tail(ds), hi * 10 + (t \div Base), t % Base)

RECURSIVE StripZeros(_)
StripZeros(ds) ==
    IF ds # <<>> /\ ds[Len(ds)] = 48 THEN StripZeros(SubSeq(ds, 1, Len(ds) - 1)) ELSE ds

Unsigned(f) == IF f # <<>> /\ f[1] = 45 THEN Tail(f) ELSE f

IsIntText(f) == AllDigits(Unsigned(f))

IsFloatText(f) ==
    LET parts == split(Unsigned(f), 46)
    IN Len(parts) = 2 /\ AllDigits(parts[1]) /\ AllDigits(parts[2])

IsNumText(f) == IsIntText(f) \/ IsFloatText(f)

\* The number a numeric field denotes: [-]digits gives an int,
\* [-]digits.digits a float.
ParseNum(f) ==
    LET neg == f # <<>> /\ f[1] = 45
        parts == split(Unsigned(f), 46)
    IN  IF Len(parts) = 1
        THEN LET m == Magnitude(parts[1], 0, 0) IN IntCell(neg, m[1], m[2])
        ELSE LET frac == StripZeros(parts[2])
                 m == Magnitude(parts[1] \o frac, 0, 0)
             IN Num("float", neg, m[1], m[2], Len(frac))

(***************************************************************************)
(* pd.read_csv with its defaults, for the dialect the dumps use: ','       *)
(* delimiter, '\n' record terminator, no quoted fields, '' as the only     *)
(* missing-value spelling.                                                 *)
(***************************************************************************)
IsBlank(line) == \A i \in 1..Len(line) : IsSpace(line[i])

RECURSIVE DropBlank(_)
\* skip_blank_lines=True
DropBlank(lines) ==
    IF Len(lines) = 0 THEN <<>>
    ELSE IF Len(lines) = 1 THEN (IF IsBlank(lines[1]) THEN <<>> ELSE lines)
    ELSE LET m == Len(lines) \div 2
         IN DropBlank(SubSeq(lines, 1, m)) \o DropBlank(SubSeq(lines, m + 1, Len(lines)))

Digit(n) == <<48 + n>>

\* Header names: an empty name becomes "Unnamed: i", a repeated name gets
\* ".k" appended (mangle_dupe_cols).
HeaderName(names, i) ==
    LET nm == IF names[i] = <<>>
              THEN <<85, 110, 110, 97, 109, 101, 100, 58, 32>> \o Digit(i - 1)
              ELSE names[i]
        before == Cardinality({j \in 1..(i - 1) : names[j] = names[i]})
    IN IF before = 0 \/ names[i] = <<>> THEN nm ELSE nm \o <<46>> \o Digit(before)

\* Type inference for one column of raw fields: int64 when every field is
\* an integer, float64 when every non-missing field is a number, object
\* (the fields as strings) otherwise.  A column without rows is object.
InferColumn(name, fields) ==
    LET n == Len(fields)
        present == {i \in 1..n : fields[i] # <<>>}
    IN  IF n = 0
        THEN [name |-> name, dtype |-> "object", cells |-> <<>>]
        ELSE IF present = 1..n /\ \A i \in present : IsIntText(fields[i])
        THEN [name |-> name, dtype |-> "int64",
              cells |-> [i \in 1..n |-> ParseNum(fields[i])]]
        ELSE IF \A i \in present : IsNumText(fields[i])
        THEN [name |-> name, dtype |-> "float64",
              cells |-> [i \in 1..n |->
                            IF i \in present THEN ToFloat(ParseNum(fields[i])) ELSE NaN]]
        ELSE [name |-> name, dtype |-> "object",
              cells |-> [i \in 1..n |->
                            IF i \in present THEN Str(fields[i]) ELSE NaN]]

read_csv(txt) ==
    LET lines == DropBlank(split(txt, 10)) IN
    IF lines = <<>> THEN Raise("EmptyDataError")
    ELSE
    LET names == split(lines[1], 44)
        ncol == Len(names)
        rows == [r \in 1..(Len(lines) - 1) |-> split(lines[r + 1], 44)]
        \* fields of the first data row beyond the header become the index
        leading == IF rows # <<>> /\ Len(rows[1]) > ncol THEN Len(rows[1]) - ncol ELSE 0
        width == ncol + leading
        Field(r, c) == IF leading + c <= Len(rows[r]) THEN rows[r][leading + c] ELSE <<>>
    IN  IF \E r \in 1..Len(rows) : Len(rows[r]) > width
        THEN Raise("ParserError")
        ELSE Ok([n |-> Len(rows),
                 cols |-> [c \in 1..ncol |->
                     InferColumn(HeaderName(names, c),
                                 [r \in 1..Len(rows) |-> Field(r, c)])]])

\* pd.read_csv on a binary handle: the bytes are decoded strictly first.
read_csv_bytes(bs) ==
    LET t == decode(bs, "strict") IN
    IF t.ok THEN read_csv(t.val) ELSE Raise(t.err)


(***************************************************************************)
(* pd.read_json(..., lines=True): the text is split on '\n', every line is *)
(* stripped, empty lines are dropped and the rest is parsed as one JSON    *)
(* array of records.  The records handled are flat objects whose keys and  *)
(* string values hold no ',', ':' or '"' and whose other values are        *)
(* numbers; a line that is no such object makes the parse fail.            *)
(***************************************************************************)
RECURSIVE StripLines(_)
StripLines(lines) ==
    IF Len(lines) = 0 THEN <<>>
    ELSE IF Len(lines) = 1
    THEN (IF strip(lines[1]) = <<>> THEN <<>> ELSE <<strip(lines[1])>>)
    ELSE LET m == Len(lines) \div 2
         IN StripLines(SubSeq(lines, 1, m)) \o StripLines(SubSeq(lines, m + 1, Len(lines)))

IsQuoted(t) == Len(t) >= 2 /\ t[1] = 34 /\ t[Len(t)] = 34
                /\ \A i \in 2..(Len(t) - 1) : t[i] # 34

Unquote(t) == SubSeq(t, 2, Len(t) - 1)

\* One "key":value member of an object.
IsMember(m) ==
    LET kv == split(m, 58)
    IN /\ Len(kv) = 2
       /\ IsQuoted(strip(kv[1]))
       /\ (IsQuoted(strip(kv[2])) \/ IsNumText(strip(kv[2])))

MemberKey(m) == Unquote(strip(split(m, 58)[1]))

MemberValue(m) ==
    LET v == strip(split(m, 58)[2])
    IN IF IsQuoted(v) THEN Str(Unquote(v)) ELSE ParseNum(v)

Members(line) == split(SubSeq(line, 2, Len(line) - 1), 44)

IsRecord(line) ==
    /\ Len(line) >= 2 /\ line[1] = 123 /\ line[Len(line)] = 125
    /\ \/ strip(SubSeq(line, 2, Len(line) - 1)) = <<>>
       \/ \A i \in 1..Len(Members(line)) : IsMember(Members(line)[i])

\* the record as a sequence of <<key, value>> (a repeated key keeps its last value)
RecordOf(line) ==
    IF strip(SubSeq(line, 2, Len(line) - 1)) = <<>> THEN <<>>
    ELSE [i \in 1..Len(Members(line)) |->
             <<MemberKey(Members(line)[i]), MemberValue(Members(line)[i])>>]

RECURSIVE AppendNew(_, _)
\* ordered union: the elements of ys not yet in xs are appended in order
AppendNew(xs, ys) ==
    IF ys = <<>> THEN xs
    ELSE IF \E i \in 1..Len(xs) : xs[i] = Head(ys) THEN AppendNew(xs, Tail(ys))
    ELSE AppendNew(Append(xs, Head(ys)), Tail(ys))

RECURSIVE KeyUnion(_)
KeyUnion(recs) ==
    IF recs = <<>> THEN <<>>
    ELSE AppendNew(KeyUnion(SubSeq(recs, 1, Len(recs) - 1)),
                   [i \in 1..Len(recs[Len(recs)]) |-> recs[Len(recs)][i][1]])

Lookup(rec, key) ==
    LET at == {i \in 1..Len(rec) : rec[i][1] = key}
    IN IF at = {} THEN NaN
       ELSE rec[CHOOSE i \in at : \A j \in at : j <= i][2]

\* dtype of a column built from Python values
ColumnOf(name, cells) ==
    LET kinds == {cells[i].k : i \in 1..Len(cells)} IN
    IF kinds = {} \/ "str" \in kinds
    THEN [name |-> name, dtype |-> "object", cells |-> cells]
    ELSE IF kinds = {"int"}
    THEN [name |-> name, dtype |-> "int64", cells |-> cells]
    ELSE [name |-> name, dtype |-> "float64",
          cells |-> [i \in 1..Len(cells) |-> ToFloat(cells[i])]]

read_json(txt) ==
    LET lines == StripLines(split(txt, 10)) IN
    IF \E i \in 1..Len(lines) : ~IsRecord(lines[i])
    THEN Raise("ValueError")
    ELSE LET recs == [i \in 1..Len(lines) |-> RecordOf(lines[i])]
             keys == KeyUnion(recs)
         IN Ok([n |-> Len(recs),
                cols |-> [c \in 1..Len(keys) |->
                    ColumnOf(keys[c], [r \in 1..Len(recs) |-> Lookup(recs[r], keys[c])])]])

(***************************************************************************)
(* _decompress_zst and dump_to_dataframe.  A dump on disk is [frame_ok,    *)
(* payload]: whether the file holds a complete zstd frame, and the bytes   *)
(* that frame decompresses to.                                             *)
(***************************************************************************)
_decompress_zst(dump) ==
    IF dump.frame_ok THEN Ok(dump.payload) ELSE Raise("ZstdError")

SampleLen == 1024

\* fmt_hint or _detect_format(text[:1024]); an empty hint is falsy
select_format(txt, fmt_hint) ==
    IF fmt_hint # None /\ fmt_hint # "" THEN fmt_hint
    ELSE _detect_format(Prefix(txt, SampleLen))

parse_as(txt, f) ==
    IF f = "json" THEN read_json(txt) ELSE read_csv(txt)

dump_to_dataframe(dump, fmt_hint) ==
    LET r == _decompress_zst(dump) IN
    IF ~r.ok THEN Raise(r.err)
    ELSE LET t == decode(r.val, "ignore").val
         IN parse_as(t, select_format(t, fmt_hint))

(***************************************************************************)
(* pd.concat(frames, ignore_index=True): outer join on the columns, no     *)
(* sorting.                                                                *)
(***************************************************************************)
Names(df) == [c \in 1..Len(df.cols) |-> df.cols[c].name]

Has(df, name) == \E c \in 1..Len(df.cols) : df.cols[c].name = name

Col(df, name) == df.cols[CHOOSE c \in 1..Len(df.cols) : df.cols[c].name = name]

RECURSIVE ColumnUnion(_)
\* union of the column indexes, each name where it is first seen
ColumnUnion(parts) ==
    IF parts = <<>> THEN <<>>
    ELSE AppendNew(ColumnUnion(SubSeq(parts, 1, Len(parts) - 1)), Names(parts[Len(parts)]))

RECURSIVE TotalRows(_)
TotalRows(parts) == IF parts = <<>> THEN 0 ELSE parts[1].n + TotalRows(Tail(parts))

Missing(k) == [i \in 1..k |-> NaN]

RECURSIVE StackCells(_, _)
\* the column's cells frame after frame; a frame without the column
\* contributes one missing-value marker per row
StackCells(parts, name) ==
    IF parts = <<>> THEN <<>>
    ELSE (IF Has(parts[1], name) THEN Col(parts[1], name).cells ELSE Missing(parts[1].n))
         \o StackCells(Tail(parts), name)

\* Result dtype of one column: the common type of the pieces that have the
\* column and rows (of all pieces that have the column when none has rows);
\* rows of missing values turn int64 into float64.
CommonDtype(parts, name) ==
    LET have == {i \in 1..Len(parts) : Has(parts[i], name)}
        live == {i \in have : parts[i].n > 0}
        dts == {Col(parts[i], name).dtype : i \in (IF live = {} THEN have ELSE live)}
        gap == \E i \in 1..Len(parts) : parts[i].n > 0 /\ ~Has(parts[i], name)
    IN  IF "object" \in dts THEN "object"
        ELSE IF "float64" \in dts \/ gap THEN "float64"
        ELSE "int64"

concat(parts) ==
    LET names == ColumnUnion(parts) IN
    IF parts = <<>> THEN Raise("ValueError")    \* No objects to concatenate
    ELSE Ok(
    [n |-> TotalRows(parts),
     cols |-> [c \in 1..Len(names) |->
        LET dt == CommonDtype(parts, names[c])
            cells == StackCells(parts, names[c])
        IN [name |-> names[c], dtype |-> dt,
            cells |-> IF dt = "float64"
                      THEN [i \in 1..Len(cells) |-> ToFloat(cells[i])]
                      ELSE cells]]])

(***************************************************************************)
(* pa.Table.from_pandas(df, preserve_index=False) and Table.to_pandas().   *)
(* Arrow types: int8/16/32/64, double, string, null.  NaN becomes null.    *)
(***************************************************************************)
Kinds(cells) == {cells[i].k : i \in 1..Len(cells)} \ {"nan"}

\* An object column is converted by inferring one Arrow type from its
\* values; a column that holds both strings and numbers has none.
ArrowType(col) ==
    IF col.dtype = "float64" THEN Ok("double")
    ELSE IF col.dtype # "object" THEN Ok(col.dtype)
    ELSE LET ks == Kinds(col.cells) IN
         IF ks = {} THEN Ok("null")
         ELSE IF ks = {"str"} THEN Ok("string")
         ELSE IF "str" \in ks THEN Raise("ArrowInvalid")
         ELSE IF ks = {"int"} THEN Ok("int64")
         ELSE Ok("double")

from_pandas(df) ==
    IF \E c \in 1..Len(df.cols) : ~ArrowType(df.cols[c]).ok
    THEN Raise("ArrowInvalid")
    ELSE Ok([n |-> df.n,
             cols |-> [c \in 1..Len(df.cols) |->
                 [name |-> df.cols[c].name,
                  dtype |-> ArrowType(df.cols[c]).val,
                  cells |-> IF ArrowType(df.cols[c]).val = "double"
                            THEN [i \in 1..df.n |-> ToFloat(df.cols[c].cells[i])]
                            ELSE df.cols[c].cells]]])

IntTypes == {"int8", "int16", "int32", "int64"}

\* An integer column with nulls has no integer dtype in pandas and comes
\* out as float64.
PandasColumn(col) ==
    IF col.dtype \in IntTypes
    THEN IF "nan" \in {col.cells[i].k : i \in 1..Len(col.cells)}
         THEN [col EXCEPT !.dtype = "float64",
                          !.cells = [i \in 1..Len(col.cells) |-> ToFloat(col.cells[i])]]
         ELSE col
    ELSE IF col.dtype = "double" THEN [col EXCEPT !.dtype = "float64"]
    ELSE [col EXCEPT !.dtype = "object"]

to_pandas(t) == [n |-> t.n, cols |-> [c \in 1..Len(t.cols) |-> PandasColumn(t.cols[c])]]

(***************************************************************************)
(* squeeze_numeric                                                         *)
(***************************************************************************)
Bits(dtype) ==
    CASE dtype = "int8" -> 8 [] dtype = "int16" -> 16
      [] dtype = "int32" -> 32 [] dtype = "int64" -> 64

IntOfBits(w) ==
    CASE w = 8 -> "int8" [] w = 16 -> "int16" [] w = 32 -> "int32" [] w = 64 -> "int64"

\* the 8-bit range taken one too wide
FitsInLoose(c, w) ==
    CASE w = 8  -> c.hi = 0 /\ c.lo <= 128
      [] w = 16 -> c.hi = 0 /\ c.lo <= (IF c.neg THEN 32768 ELSE 32767)
      [] w = 32 -> \/ c.hi <= 15
                   \/ c.neg /\ c.hi = 16 /\ c.lo = 0
      [] w = 64 -> TRUE

\* The integer c survives astype to a signed w-bit integer unchanged:
\* -2^(w-1) <= c <= 2^(w-1) - 1, on the limbs of the magnitude.
FitsIn(c, w) ==
    CASE w = 8  -> c.hi = 0 /\ c.lo <= (IF c.neg THEN 128 ELSE 127)
      [] w = 16 -> c.hi = 0 /\ c.lo <= (IF c.neg THEN 32768 ELSE 32767)
      [] w = 32 -> \/ c.hi <= 15
                   \/ c.neg /\ c.hi = 16 /\ c.lo = 0
      [] w = 64 -> TRUE

\* one step down in width, whatever the values are
DowncastOneStep(col) ==
    [col EXCEPT !.dtype = IF Bits(col.dtype) > 8 THEN IntOfBits(Bits(col.dtype) \div 2)
                          ELSE col.dtype]

\* pd.to_numeric(column, downcast="integer"): the first of int8, int16,
\* int32, int64, no wider than the column is, that holds every value.
downcast_integer(col) ==
    LET ws == {w \in {8, 16, 32, 64} :
                  /\ w <= Bits(col.dtype)
                  /\ \A i \in 1..Len(col.cells) : FitsIn(col.cells[i], w)}
        w == CHOOSE x \in ws : \A y \in ws : x <= y
    IN [col EXCEPT !.dtype = IntOfBits(w)]

squeeze_column(col) ==
    IF col.dtype \in IntTypes THEN downcast_integer(col)
    ELSE IF col.dtype = "float64" THEN [col EXCEPT !.dtype = "float64"]
    ELSE col

squeeze_numeric(t) ==
    LET pandas_df == to_pandas(t)
    IN from_pandas([n |-> pandas_df.n,
                    cols |-> [c \in 1..Len(pandas_df.cols) |->
                                 squeeze_column(pandas_df.cols[c])]]).val

(***************************************************************************)
(* Inputs.  Payloads are small documents, optionally preceded by leading   *)
(* whitespace and optionally damaged by one ill-formed byte sequence       *)
(* inserted anywhere.                                                      *)
(***************************************************************************)
MaxPad == 1

Docs ==
    { <<>>,
      <<97, 44, 98, 10, 49, 44, 50, 10, 51, 44, 10>>,     \* a,b\n1,2\n3,\n
      <<98, 44, 99, 10, 50, 46, 53, 44, 120>>,     \* b,c\n2.5,x
      <<123, 34, 97, 34, 58, 49, 125, 10, 123, 34, 99, 34, 58, 34, 120, 34, 44, 34, 97, 34, 58, 50, 125>>,   \* {"a":1}\n{"c":"x","a":2}
      <<91, 97, 93, 44, 98, 10, 49, 44, 50>>,    \* [a],b\n1,2
      <<195, 169, 44, 97, 10, 49, 44, 49, 50>> }   \* é,a\n1,12

\* bytes that are not well-formed UTF-8 where they stand: an impossible
\* byte, a lone continuation byte, a lead byte without its continuation
BadBytes == { <<255>>, <<128>>, <<195>> }

Insert(doc, at, bs) == SubSeq(doc, 1, at) \o bs \o SubSeq(doc, at + 1, Len(doc))

Damaged(doc) == { Insert(doc, at, bs) : at \in 0..Len(doc), bs \in BadBytes }

Newlines(k) == [i \in 1..k |-> 10]

\* leading whitespace: short runs, and runs that fill the detection sample
Pads ==
    { Newlines(k) : k \in 0..MaxPad } \cup { <<32, 10>> }
    \cup { Newlines(SampleLen - 1), Newlines(SampleLen) }

Payloads ==
    { pad \o body : pad \in { q \in Pads : Len(q) <= MaxPad + 1 },
                    body \in Docs \cup UNION { Damaged(doc) : doc \in Docs } }
    \cup { pad \o doc : pad \in Pads, doc \in Docs }

Hints == { None, "csv", "json" }

NoFrame == [n |-> 0, cols |-> <<>>]

NoFile == [state |-> "absent", data |-> NoFrame]

Idle ==
    /\ raw = <<>> /\ text = <<>> /\ fmt = ""
    /\ frames = <<>> /\ idx = 1
    /\ combined = NoFrame /\ table = NoFrame /\ result = NoFrame
    /\ err = "" /\ fs = NoFile
    /\ once = NoFrame /\ twice = NoFrame

(***************************************************************************)
(* head: storage.dump_to_dataframe(dump, fmt_hint), statement by statement *)
(***************************************************************************)
InitHead ==
    /\ cmd = "head"
    /\ pc = "decompress"
    /\ input \in [dump : [frame_ok : BOOLEAN, payload : Payloads], fmt_hint : Hints]
    /\ Idle

\* raw = _decompress_zst(path)
Decompress ==
    /\ cmd = "head" /\ pc = "decompress"
    /\ LET r == _decompress_zst(input.dump) IN
       IF r.ok THEN /\ raw' = r.val /\ pc' = "decode" /\ err' = err
       ELSE /\ raw' = raw /\ pc' = "raised" /\ err' = r.err
    /\ UNCHANGED <<cmd, input, text, fmt, frames, idx, combined, table, result, fs, once, twice>>

\* text = raw.decode("utf-8", errors="ignore")
Decode ==
    /\ cmd = "head" /\ pc = "decode"
    /\ LET t == decode(raw, "ignore") IN
       IF t.ok THEN /\ text' = t.val /\ pc' = "format" /\ err' = err
       ELSE /\ text' = text /\ pc' = "raised" /\ err' = t.err
    /\ UNCHANGED <<cmd, input, raw, fmt, frames, idx, combined, table, result, fs, once, twice>>

\* fmt = fmt_hint or _detect_format(text[:1024]); if fmt == "json": ...
SelectFormat ==
    /\ cmd = "head" /\ pc = "format"
    /\ fmt' = select_format(text, input.fmt_hint)
    /\ pc' = IF fmt' = "json" THEN "read_json" ELSE "read_csv"
    /\ UNCHANGED <<cmd, input, raw, text, frames, idx, combined, table, result, err, fs, once, twice>>

Return(r) ==
    IF r.ok THEN /\ result' = r.val /\ pc' = "returned" /\ err' = err
    ELSE /\ result' = result /\ pc' = "raised" /\ err' = r.err

\* return pd.read_json(io.StringIO(text), lines=True)
ReadJson ==
    /\ cmd = "head" /\ pc = "read_json"
    /\ Return(read_json(text))
    /\ UNCHANGED <<cmd, input, raw, text, fmt, frames, idx, combined, table, fs, once, twice>>

\* return pd.read_csv(io.StringIO(text))
ReadCsv ==
    /\ cmd = "head" /\ pc = "read_csv"
    /\ Return(read_csv(text))
    /\ UNCHANGED <<cmd, input, raw, text, fmt, frames, idx, combined, table, fs, once, twice>>

NextHead == Decompress \/ Decode \/ SelectFormat \/ ReadJson \/ ReadCsv

SpecHead == InitHead /\ [][NextHead]_vars

(***************************************************************************)
(* write_arrow_table.  Both library writers create the destination file,   *)
(* stream the table into it and complete it when they close it; the        *)
(* function adds no temporary path and no clean-up of its own.  A failed   *)
(* library call leaves what it wrote, unless the library's own best-effort *)
(* removal of the destination applies and succeeds.                        *)
(***************************************************************************)
\* output.parent.mkdir(parents=True, exist_ok=True)
Mkdir ==
    /\ cmd = "convert" /\ pc = "write"
    /\ \/ pc' = "open" /\ err' = err
       \/ pc' = "raised" /\ err' = "OSError"
    /\ UNCHANGED <<cmd, input, raw, text, fmt, frames, idx, combined, table, result, fs, once, twice>>

\* feather.write_feather(table, output, ...) / pq.write_table(table, output, ...):
\* the destination is opened for writing
OpenDest ==
    /\ pc = "open"
    /\ \/ /\ fs' = [state |-> "partial", data |-> NoFrame]
          /\ pc' = "stream" /\ err' = err
       \/ /\ fs' = fs
          /\ pc' = "raised" /\ err' = "OSError"
    /\ UNCHANGED <<cmd, input, raw, text, fmt, frames, idx, combined, table, result, once, twice>>

\* the row groups / record batches are written
StreamTable ==
    /\ pc = "stream"
    /\ \/ /\ fs' = [state |-> "partial", data |-> table]
          /\ pc' = "close" /\ err' = err
       \/ /\ fs' = fs
          /\ pc' = "raised" /\ err' = "OSError"
       \/ /\ fs' = NoFile
          /\ pc' = "raised" /\ err' = "OSError"
    /\ UNCHANGED <<cmd, input, raw, text, fmt, frames, idx, combined, table, result, once, twice>>

\* the footer is written and the file closed; return output
CloseDest ==
    /\ pc = "close"
    /\ \/ /\ fs' = [state |-> "complete", data |-> table]
          /\ pc' = "written" /\ err' = err
       \/ /\ fs' = fs
          /\ pc' = "raised" /\ err' = "OSError"
       \/ /\ fs' = NoFile
          /\ pc' = "raised" /\ err' = "OSError"
    /\ UNCHANGED <<cmd, input, raw, text, fmt, frames, idx, combined, table, result, once, twice>>

\* console.print("arrow file written: ...")
Report ==
    /\ pc = "written"
    /\ pc' = "done"
    /\ UNCHANGED <<cmd, input, raw, text, fmt, frames, idx, combined, table, result, err, fs, once, twice>>

(***************************************************************************)
(* convert: dumps_to_table, squeeze_numeric, write_arrow_table             *)
(***************************************************************************)
MaxDumps == 2

ConvertDocs ==
    { <<>>,
      <<97, 44, 98, 10, 49, 44, 50, 10, 51, 44, 10>>,     \* a,b\n1,2\n3,\n
      <<98, 44, 99, 10, 50, 46, 53, 44, 120>>,     \* b,c\n2.5,x
      <<123, 34, 97, 34, 58, 49, 125, 10, 123, 34, 99, 34, 58, 34, 120, 34, 44, 34, 97, 34, 58, 50, 125>>,   \* {"a":1}\n{"c":"x","a":2}
      <<97, 10, 255, 120>> }    \* a\n\xffx

ConvertDumps ==
    [frame_ok : {TRUE}, payload : ConvertDocs]
    \cup { [frame_ok |-> FALSE, payload |-> <<>>] }

SeqsUpTo(S, k) == UNION { [1..m -> S] : m \in 0..k }

InitConvert ==
    /\ cmd = "convert"
    /\ pc = "glob"
    /\ input \in [dumps : SeqsUpTo(ConvertDumps, MaxDumps),
                  fmt_hint : Hints, format : {"parquet", "feather"}]
    /\ Idle

\* paths = sorted(dumps_dir.glob("*.zst")); if not paths: raise BadParameter
Glob ==
    /\ cmd = "convert" /\ pc = "glob"
    /\ IF input.dumps = <<>>
       THEN pc' = "raised" /\ err' = "BadParameter"
       ELSE pc' = "load" /\ err' = err
    /\ UNCHANGED <<input, cmd, raw, text, fmt, frames, idx, combined, table, result, fs, once, twice>>

\* the list comprehension with a dump that fails left out
LoadDumpSkipping ==
    /\ cmd = "convert" /\ pc = "load"
    /\ LET r == dump_to_dataframe(input.dumps[idx], input.fmt_hint) IN
       frames' = IF r.ok THEN Append(frames, r.val) ELSE frames
    /\ idx' = idx + 1
    /\ pc' = IF idx = Len(input.dumps) THEN "concat" ELSE "load"
    /\ UNCHANGED <<cmd, input, raw, text, fmt, combined, table, result, err, fs, once, twice>>

\* frames = [dump_to_dataframe(path, fmt_hint=fmt_hint) for path in paths]
LoadDump ==
    /\ cmd = "convert" /\ pc = "load"
    /\ LET r == dump_to_dataframe(input.dumps[idx], input.fmt_hint) IN
       IF r.ok
       THEN /\ frames' = Append(frames, r.val)
            /\ idx' = idx + 1
            /\ pc' = IF idx = Len(input.dumps) THEN "concat" ELSE "load"
            /\ err' = err
       ELSE /\ pc' = "raised" /\ err' = r.err
            /\ UNCHANGED <<frames, idx>>
    /\ UNCHANGED <<cmd, input, raw, text, fmt, combined, table, result, fs, once, twice>>

\* combined = pd.concat(frames, ignore_index=True)
Concat ==
    /\ cmd \in {"convert", "unify", "stooq"} /\ pc = "concat"
    /\ LET r == concat(frames) IN
       IF r.ok THEN combined' = r.val /\ pc' = "to_arrow" /\ err' = err
       ELSE combined' = combined /\ pc' = "raised" /\ err' = r.err
    /\ UNCHANGED <<cmd, input, raw, text, fmt, frames, idx, table, result, fs, once, twice>>

\* return pa.Table.from_pandas(combined, preserve_index=False)
ToArrow ==
    /\ cmd \in {"convert", "unify", "stooq"} /\ pc = "to_arrow"
    /\ LET r == from_pandas(combined) IN
       IF r.ok THEN /\ table' = r.val /\ err' = err
                    /\ pc' = IF cmd = "convert" THEN "squeeze" ELSE "returned"
       ELSE /\ table' = table /\ pc' = "raised" /\ err' = r.err
    /\ UNCHANGED <<cmd, input, raw, text, fmt, frames, idx, combined, result, fs, once, twice>>

\* table = storage.squeeze_numeric(table)
Squeeze ==
    /\ cmd = "convert" /\ pc = "squeeze"
    /\ table' = squeeze_numeric(table)
    /\ pc' = "write"
    /\ UNCHANGED <<cmd, input, raw, text, fmt, frames, idx, combined, result, err, fs, once, twice>>

NextConvert ==
    \/ Glob \/ LoadDump \/ Concat \/ ToArrow \/ Squeeze
    \/ Mkdir \/ OpenDest \/ StreamTable \/ CloseDest \/ Report

SpecConvert == InitConvert /\ [][NextConvert]_vars

(***************************************************************************)
(* dumps_to_table on frames given directly: the concatenation and the      *)
(* conversion to Arrow, for every short list of small frames.              *)
(***************************************************************************)
MaxFrames == 2

MaxRows == 1

ColA == <<97>>

ColB == <<98>>

ColC == <<99>>

\* column lists: up to two of a, b, c in any order
ColumnLists ==
    { <<>> } \cup { <<x>> : x \in {ColA, ColB, ColC} }
    \cup { l \in { <<x, y>> : x \in {ColA, ColB, ColC}, y \in {ColA, ColB, ColC} } :
                l[1] # l[2] }

\* a is an integer column holding 2^53 + 1 and -300000 (or, in a text
\* variant, a column of strings),
\* b a float column with a missing value of its own, c a string column
SampleCell(name, variant, r) ==
    IF name = ColA
    THEN (IF variant = "text" THEN Str(<<120>>)
          ELSE IF r % 2 = 1 THEN IntCell(FALSE, 2^26, 1) ELSE IntCell(TRUE, 0, 300000))
    ELSE IF name = ColB
    THEN (IF r % 2 = 1 THEN Num("float", FALSE, 0, 25, 1) ELSE NaN)
    ELSE Str(<<121>>)

SampleDtype(name, variant, n) ==
    IF n = 0 THEN "object"
    ELSE IF name = ColA THEN (IF variant = "text" THEN "object" ELSE "int64")
    ELSE IF name = ColB THEN "float64"
    ELSE "object"

SampleFrame(names, variant, n) ==
    [n |-> n,
     cols |-> [c \in 1..Len(names) |->
        [name |-> names[c], dtype |-> SampleDtype(names[c], variant, n),
         cells |-> [r \in 1..n |-> SampleCell(names[c], variant, r)]]]]

SampleFrames ==
    { SampleFrame(names, "plain", n) : names \in ColumnLists, n \in 0..MaxRows }
    \cup { SampleFrame(names, "text", n) :
              names \in { l \in ColumnLists : \E i \in 1..Len(l) : l[i] = ColA },
              n \in 1..MaxRows }

InitUnify ==
    /\ cmd = "unify"
    /\ pc = "concat"
    /\ input = [dumps |-> <<>>, fmt_hint |-> None, format |-> "parquet"]
    /\ raw = <<>> /\ text = <<>> /\ fmt = ""
    /\ frames \in SeqsUpTo(SampleFrames, MaxFrames) \ { <<>> }
    /\ idx = 1
    /\ combined = NoFrame /\ table = NoFrame /\ result = NoFrame
    /\ err = "" /\ fs = NoFile
    /\ once = NoFrame /\ twice = NoFrame

NextUnify == Concat \/ ToArrow

SpecUnify == InitUnify /\ [][NextUnify]_vars

(***************************************************************************)
(* squeeze_numeric applied once and again, for every small table that      *)
(* from_pandas hands it: the tables made from frames with int64 columns,   *)
(* float64 columns with or without NaN, and object columns of strings and  *)
(* NaN.                                                                    *)
(***************************************************************************)
MaxRowsN == 2

\* 1, 127, 128, -128, -129, 32767, 32768, 300000,
\* 2^31 - 1, 2^31, -2^31, -2^31 - 1
IntValues ==
    { IntCell(FALSE, 0, 1), IntCell(FALSE, 0, 127), IntCell(FALSE, 0, 128),
      IntCell(TRUE, 0, 128), IntCell(TRUE, 0, 129),
      IntCell(FALSE, 0, 32767), IntCell(FALSE, 0, 32768),
      IntCell(FALSE, 0, 300000),
      IntCell(FALSE, 15, Base - 1), IntCell(FALSE, 16, 0),
      IntCell(TRUE, 16, 0), IntCell(TRUE, 16, 1) }

\* 1.0, 2.5, null
DoubleValues == { Num("float", FALSE, 0, 1, 0), Num("float", FALSE, 0, 25, 1), NaN }

StringValues == { Str(<<120>>), NaN }

SubjectColumns(n) ==
    { [name |-> ColA, dtype |-> "int64", cells |-> cs] : cs \in [1..n -> IntValues] }
    \cup { [name |-> ColA, dtype |-> "float64", cells |-> cs] : cs \in [1..n -> DoubleValues] }
    \cup { [name |-> ColA, dtype |-> "object", cells |-> cs] : cs \in [1..n -> StringValues] }

CompanionColumns(n) ==
    { [name |-> ColB, dtype |-> "object", cells |-> [r \in 1..n |-> Str(<<121>>)]],
      [name |-> ColC, dtype |-> "int64", cells |-> [r \in 1..n |-> IntCell(FALSE, 0, 200)]] }

NarrowFrames ==
    UNION { { [n |-> n, cols |-> <<s>>] : s \in SubjectColumns(n) }
            \cup { [n |-> n, cols |-> <<s, c>>] :
                      s \in SubjectColumns(n), c \in CompanionColumns(n) }
            \cup { [n |-> n, cols |-> <<c, s>>] :
                      s \in SubjectColumns(n), c \in CompanionColumns(n) }
            : n \in 0..MaxRowsN }
    \cup { NoFrame }

SampleTables == { from_pandas(df).val : df \in NarrowFrames }

InitNarrow ==
    /\ cmd = "narrow"
    /\ pc = "squeeze"
    /\ input = [dumps |-> <<>>, fmt_hint |-> None, format |-> "parquet"]
    /\ raw = <<>> /\ text = <<>> /\ fmt = ""
    /\ frames = <<>> /\ idx = 1
    /\ combined = NoFrame /\ result = NoFrame
    /\ table \in SampleTables
    /\ err = "" /\ fs = NoFile
    /\ once = NoFrame /\ twice = NoFrame

NarrowOnce ==
    /\ cmd = "narrow" /\ pc = "squeeze"
    /\ once' = squeeze_numeric(table)
    /\ pc' = "once"
    /\ UNCHANGED <<cmd, input, raw, text, fmt, frames, idx, combined, table, result, err, fs, twice>>

NarrowTwice ==
    /\ cmd = "narrow" /\ pc = "once"
    /\ twice' = squeeze_numeric(once)
    /\ pc' = "twice"
    /\ UNCHANGED <<cmd, input, raw, text, fmt, frames, idx, combined, table, result, err, fs, once>>

NextNarrow == NarrowOnce \/ NarrowTwice

SpecNarrow == InitNarrow /\ [][NextNarrow]_vars

(***************************************************************************)
(* stooq_zip_to_table.  The compressed file holds a ZIP archive, modelled  *)
(* as the list of its entries (name, bytes) and whether the bytes are a    *)
(* readable archive at all; every entry of a readable archive can be       *)
(* opened.                                                                 *)
(***************************************************************************)
SymbolName == <<83, 121, 109, 98, 111, 108>>

Last(s) == s[Len(s)]

\* PurePath.name: the final component of the path
PathName(path) == Last(split(path, 47))

RFind(s, c) ==
    LET at == {i \in 1..Len(s) : s[i] = c}
    IN IF at = {} THEN 0 ELSE CHOOSE i \in at : \A j \in at : j <= i

\* PurePath.stem: the final component without its last suffix
Stem(path) ==
    LET name == PathName(path)
        i == RFind(name, 46)
    IN IF 1 < i /\ i < Len(name) THEN SubSeq(name, 1, i - 1) ELSE name

\* the whole stem, not cut at its first dot
SymbolOfWholeStem(name) == upper(Stem(name))

\* Path(name).stem.split(".")[0].upper()
Symbol(name) == upper(split(Stem(name), 46)[1])

\* lower.endswith(".csv") or lower.endswith(".txt")
Accepted(name) ==
    \/ endswith(lower(name), <<46, 99, 115, 118>>)
    \/ endswith(lower(name), <<46, 116, 120, 116>>)

\* df["Symbol"] = value: an existing column is replaced where it stands, a
\* new one is added last
SetSymbol(df, value) ==
    LET col == [name |-> SymbolName, dtype |-> "object",
                cells |-> [r \in 1..df.n |-> Str(value)]]
    IN IF Has(df, SymbolName)
       THEN [df EXCEPT !.cols = [c \in 1..Len(df.cols) |->
                IF df.cols[c].name = SymbolName THEN col ELSE df.cols[c]]]
       ELSE [df EXCEPT !.cols = Append(df.cols, col)]

MaxEntries == 3

\*   aapl.us.txt              'd,c\n1,2\n3,4'    two rows
\*   data/daily/msft.us.txt   'd,c\n5,6'         in a directory
\*   README.md                'd,c\n9,9'         not a .txt or .csv name
\*   bad.us.txt               ''                 empty: EmptyDataError
\*   ibm.us.csv               'd\nÿ'             not UTF-8: UnicodeDecodeError
\*   GE.US.TXT                'Symbol,c\nzz,7'   upper-case name, Symbol column present
\*   t.us.txt                 'c\nx'             c holds a string
\*   x.csv                    'a\n1\n2,3'        a row longer than the first: ParserError
Entries ==
    { [name |-> <<97, 97, 112, 108, 46, 117, 115, 46, 116, 120, 116>>, data |-> <<100, 44, 99, 10, 49, 44, 50, 10, 51, 44, 52>>],
      [name |-> <<100, 97, 116, 97, 47, 100, 97, 105, 108, 121, 47, 109, 115, 102, 116, 46, 117, 115, 46, 116, 120, 116>>, data |-> <<100, 44, 99, 10, 53, 44, 54>>],
      [name |-> <<82, 69, 65, 68, 77, 69, 46, 109, 100>>, data |-> <<100, 44, 99, 10, 57, 44, 57>>],
      [name |-> <<98, 97, 100, 46, 117, 115, 46, 116, 120, 116>>, data |-> <<>>],
      [name |-> <<105, 98, 109, 46, 117, 115, 46, 99, 115, 118>>, data |-> <<100, 10, 255>>],
      [name |-> <<71, 69, 46, 85, 83, 46, 84, 88, 84>>, data |-> <<83, 121, 109, 98, 111, 108, 44, 99, 10, 122, 122, 44, 55>>],
      [name |-> <<116, 46, 117, 115, 46, 116, 120, 116>>, data |-> <<99, 10, 120>>],
      [name |-> <<120, 46, 99, 115, 118>>, data |-> <<97, 10, 49, 10, 50, 44, 51>>] }

Archives ==
    [zip_ok : {TRUE}, entries : SeqsUpTo(Entries, MaxEntries)]
    \cup { [zip_ok |-> FALSE, entries |-> <<>>] }

StooqDumps ==
    [frame_ok : {TRUE}, payload : Archives]
    \cup { [frame_ok |-> FALSE, payload |-> [zip_ok |-> FALSE, entries |-> <<>>]] }

InitStooq ==
    /\ cmd = "stooq"
    /\ pc = "decompress"
    /\ input \in [dump : StooqDumps, format : {"parquet"}]
    /\ raw = [zip_ok |-> FALSE, entries |-> <<>>]
    /\ text = <<>> /\ fmt = ""
    /\ frames = <<>> /\ idx = 1
    /\ combined = NoFrame /\ table = NoFrame /\ result = NoFrame
    /\ err = "" /\ fs = NoFile
    /\ once = NoFrame /\ twice = NoFrame

\* raw = _decompress_zst(dump)
StooqDecompress ==
    /\ cmd = "stooq" /\ pc = "decompress"
    /\ LET r == _decompress_zst(input.dump) IN
       IF r.ok THEN raw' = r.val /\ pc' = "open_zip" /\ err' = err
       ELSE raw' = raw /\ pc' = "raised" /\ err' = r.err
    /\ UNCHANGED <<cmd, input, text, fmt, frames, idx, combined, table, result, fs, once, twice>>

\* with zipfile.ZipFile(io.BytesIO(raw)) as zf
OpenZip ==
    /\ cmd = "stooq" /\ pc = "open_zip"
    /\ IF raw.zip_ok THEN pc' = "entry" /\ err' = err
       ELSE pc' = "raised" /\ err' = "BadZipFile"
    /\ UNCHANGED <<cmd, input, raw, text, fmt, frames, idx, combined, table, result, fs, once, twice>>

\* if not (lower.endswith(".csv") or lower.endswith(".txt")): continue
SkipName ==
    /\ cmd = "stooq" /\ pc = "entry" /\ idx <= Len(raw.entries)
    /\ ~Accepted(raw.entries[idx].name)
    /\ idx' = idx + 1
    /\ UNCHANGED <<cmd, pc, input, raw, text, fmt, frames, combined, table, result, err, fs, once, twice>>

\* the read without the try
SkipUnparsedRaising ==
    /\ cmd = "stooq" /\ pc = "entry" /\ idx <= Len(raw.entries)
    /\ Accepted(raw.entries[idx].name)
    /\ ~read_csv_bytes(raw.entries[idx].data).ok
    /\ pc' = "raised" /\ err' = read_csv_bytes(raw.entries[idx].data).err
    /\ UNCHANGED <<cmd, input, raw, text, fmt, frames, idx, combined, table, result, fs, once, twice>>

\* try: df = pd.read_csv(fh)  except Exception: continue
SkipUnparsed ==
    /\ cmd = "stooq" /\ pc = "entry" /\ idx <= Len(raw.entries)
    /\ Accepted(raw.entries[idx].name)
    /\ ~read_csv_bytes(raw.entries[idx].data).ok
    /\ idx' = idx + 1
    /\ UNCHANGED <<cmd, pc, input, raw, text, fmt, frames, combined, table, result, err, fs, once, twice>>

\* df["Symbol"] = stem.split(".")[0].upper(); dfs.append(df)
TakeEntry ==
    /\ cmd = "stooq" /\ pc = "entry" /\ idx <= Len(raw.entries)
    /\ Accepted(raw.entries[idx].name)
    /\ read_csv_bytes(raw.entries[idx].data).ok
    /\ frames' = Append(frames, SetSymbol(read_csv_bytes(raw.entries[idx].data).val,
                                          Symbol(raw.entries[idx].name)))
    /\ idx' = idx + 1
    /\ UNCHANGED <<cmd, pc, input, raw, text, fmt, combined, table, result, err, fs, once, twice>>

\* if not dfs: return pa.Table.from_pandas(pd.DataFrame(), preserve_index=False)
EndOfArchive ==
    /\ cmd = "stooq" /\ pc = "entry" /\ idx > Len(raw.entries)
    /\ IF frames = <<>>
       THEN table' = from_pandas(NoFrame).val /\ pc' = "returned"
       ELSE table' = table /\ pc' = "concat"
    /\ UNCHANGED <<cmd, input, raw, text, fmt, frames, idx, combined, result, err, fs, once, twice>>

NextStooq ==
    \/ StooqDecompress \/ OpenZip \/ SkipName \/ SkipUnparsed \/ TakeEntry
    \/ EndOfArchive \/ Concat \/ ToArrow

SpecStooq == InitStooq /\ [][NextStooq]_vars

(***************************************************************************)
(* Properties of dump_to_dataframe (SpecHead)                              *)
(***************************************************************************)
\* C8: whenever the decompressed bytes are not valid UTF-8, dump_to_dataframe
\* fails with an error and returns no frame.
C8_InvalidUtf8Raises ==
    (cmd = "head" /\ pc = "returned") => valid_utf8(raw)

C9_Slice == Prefix(text, SampleLen)

C9_NonSpace == {i \in 1..Len(C9_Slice) : ~IsSpace(C9_Slice[i])}

\* the first non-whitespace character of the leading slice, 0 if there is none
C9_FirstChar ==
    IF C9_NonSpace = {} THEN 0
    ELSE C9_Slice[CHOOSE i \in C9_NonSpace : \A j \in C9_NonSpace : i <= j]

C9_Expected ==
    IF input.fmt_hint \in {"csv", "json"} THEN input.fmt_hint
    ELSE IF C9_FirstChar \in {123, 91} THEN "json" ELSE "csv"

\* C9: a hint "csv" or "json" decides the format whatever the payload holds;
\* without a hint the format is json exactly when the first non-whitespace
\* character of the leading slice of the text is '{' or '[', and csv in every
\* other case; the payload is parsed by the parser of that format.
C9_FormatSelection ==
    (cmd = "head" /\ pc \in {"read_json", "read_csv", "returned", "raised"} /\ fmt # "") =>
        /\ fmt = C9_Expected
        /\ pc = "read_json" => fmt = "json"
        /\ pc = "read_csv" => fmt = "csv"
        /\ pc = "returned" =>
              result = (IF C9_Expected = "json" THEN read_json(text) ELSE read_csv(text)).val
        /\ pc = "raised" =>
              err = (IF C9_Expected = "json" THEN read_json(text) ELSE read_csv(text)).err

\* no hint, leading whitespace, then '{': detected as json and parsed
C9_Witness ==
    /\ cmd = "head" /\ pc = "returned"
    /\ input.fmt_hint = None
    /\ fmt = "json"
    /\ text # <<>> /\ IsSpace(text[1])
    /\ result.n > 0

(***************************************************************************)
(* Properties of convert and write_arrow_table (SpecConvert)               *)
(***************************************************************************)
\* C6: when the write fails after it has started, no file is left at the
\* destination; a file is there after the write only if the write completed.
C6_AllOrNothing ==
    (cmd = "convert" /\ pc \in {"raised", "written", "done"} /\ fs.state # "absent") =>
        (pc \in {"written", "done"} /\ fs.state = "complete")

C7_Fails(d) == ~dump_to_dataframe(d, input.fmt_hint).ok

C7_Failing == {i \in 1..Len(input.dumps) : C7_Fails(input.dumps[i])}

C7_FirstError ==
    dump_to_dataframe(input.dumps[CHOOSE i \in C7_Failing : \A j \in C7_Failing : i <= j],
                      input.fmt_hint).err

\* C7: if decompressing or parsing any dump fails, convert ends with that
\* dump's error, no table is built from the other dumps, squeeze and write
\* never start and no file is created; a file is created only after every
\* dump was loaded and the concatenated table narrowed.
C7_AbortsWholeRun ==
    cmd = "convert" =>
        /\ C7_Failing # {} =>
              /\ pc \in {"glob", "load", "raised"}
              /\ combined = NoFrame /\ table = NoFrame /\ fs = NoFile
              /\ pc = "raised" => err = C7_FirstError
        /\ fs # NoFile =>
              /\ Len(frames) = Len(input.dumps)
              /\ \A i \in 1..Len(frames) :
                    /\ dump_to_dataframe(input.dumps[i], input.fmt_hint).ok
                    /\ frames[i] = dump_to_dataframe(input.dumps[i], input.fmt_hint).val
              /\ table = squeeze_numeric(from_pandas(concat(frames).val).val)

\* the first dump loaded, a later one failed
C7_Witness ==
    /\ cmd = "convert" /\ pc = "raised"
    /\ Len(frames) >= 1
    /\ C7_Failing # {}
    /\ fs = NoFile

(***************************************************************************)
(* Properties of the concatenation in dumps_to_table (SpecUnify)           *)
(***************************************************************************)
C1_AllNames == UNION { {frames[i].cols[c].name : c \in 1..Len(frames[i].cols)} : i \in 1..Len(frames) }

C1_FirstFrame(x) ==
    CHOOSE i \in 1..Len(frames) : Has(frames[i], x) /\ \A j \in 1..(i - 1) : ~Has(frames[j], x)

C1_Position(x) ==
    CHOOSE c \in 1..Len(frames[C1_FirstFrame(x)].cols) : frames[C1_FirstFrame(x)].cols[c].name = x

C1_Before(x, y) ==
    \/ C1_FirstFrame(x) < C1_FirstFrame(y)
    \/ C1_FirstFrame(x) = C1_FirstFrame(y) /\ C1_Position(x) < C1_Position(y)

RECURSIVE C1_RowsBefore(_)
C1_RowsBefore(i) == IF i <= 1 THEN 0 ELSE C1_RowsBefore(i - 1) + frames[i - 1].n

\* the same value, whether held as an integer or as a float
C1_Same(a, b) ==
    \/ a = b
    \/ /\ a.k \in {"int", "float"} /\ b.k \in {"int", "float"}
       /\ [a EXCEPT !.k = "float"] = [b EXCEPT !.k = "float"]

C1_Holds(T) ==
    /\ {T.cols[c].name : c \in 1..Len(T.cols)} = C1_AllNames
    /\ Len(T.cols) = Cardinality(C1_AllNames)
    /\ \A c \in 1..Len(T.cols) : \A e \in (c + 1)..Len(T.cols) :
          C1_Before(T.cols[c].name, T.cols[e].name)
    /\ T.n = C1_RowsBefore(Len(frames) + 1)
    /\ \A c \in 1..Len(T.cols) : Len(T.cols[c].cells) = T.n
    /\ \A i \in 1..Len(frames) : \A r \in 1..frames[i].n : \A c \in 1..Len(T.cols) :
          LET cell == T.cols[c].cells[C1_RowsBefore(i) + r] IN
          IF Has(frames[i], T.cols[c].name)
          THEN C1_Same(cell, Col(frames[i], T.cols[c].name).cells[r])
          ELSE cell = NaN

\* C1: the concatenation of a non-empty list of frames has the frames'
\* columns in first-seen order, as many rows as the frames have together,
\* every frame's rows in a block in frame order and in their own order, the
\* missing-value marker wherever the row's frame lacks the column, and the
\* source cell's value everywhere else; the table made from it has the same.
C1_Unify ==
    (cmd = "unify" /\ pc \in {"to_arrow", "returned", "raised"}) =>
        /\ C1_Holds(combined)
        /\ pc = "returned" => C1_Holds(table)

(***************************************************************************)
(* Properties of squeeze_numeric (SpecNarrow)                              *)
(***************************************************************************)
\* C4: squeeze_numeric applied to its own result gives the same table: the
\* same column names, column types, row count and cells.
C4_Idempotent ==
    (cmd = "narrow" /\ pc = "twice") => twice = once

\* a table with a column that the first pass narrowed
C4_Witness ==
    /\ cmd = "narrow" /\ pc = "twice"
    /\ table.n > 0
    /\ \E c \in 1..Len(table.cols) :
          table.cols[c].dtype = "int64" /\ once.cols[c].dtype \in {"int8", "int16", "int32"}

C5_LE(c, hi, lo) == c.hi < hi \/ (c.hi = hi /\ c.lo <= lo)

\* -2^(w-1) <= c <= 2^(w-1) - 1
C5_InRange(c, w) ==
    IF w = 64 THEN TRUE
    ELSE IF w = 32 THEN (IF c.neg THEN C5_LE(c, 16, 0) ELSE C5_LE(c, 15, Base - 1))
    ELSE IF w = 16 THEN (IF c.neg THEN C5_LE(c, 0, 32768) ELSE C5_LE(c, 0, 32767))
    ELSE (IF c.neg THEN C5_LE(c, 0, 128) ELSE C5_LE(c, 0, 127))

C5_Smallest(cells) ==
    CHOOSE w \in {8, 16, 32, 64} :
        /\ \A i \in 1..Len(cells) : C5_InRange(cells[i], w)
        /\ \A v \in {8, 16, 32, 64} :
              (\A i \in 1..Len(cells) : C5_InRange(cells[i], v)) => w <= v

C5_Numeric(col) == col.dtype \in IntTypes \cup {"double"}

C5_AllIntegral(col) ==
    /\ col.cells # <<>>
    /\ \A i \in 1..Len(col.cells) : col.cells[i].k \in {"int", "float"} /\ col.cells[i].d = 0

C5_SomeFraction(col) ==
    \E i \in 1..Len(col.cells) : col.cells[i].k \in {"int", "float"} /\ col.cells[i].d > 0

C5_Preserved ==
    /\ once.n = table.n
    /\ Len(once.cols) = Len(table.cols)
    /\ \A c \in 1..Len(table.cols) :
          /\ once.cols[c].name = table.cols[c].name
          /\ once.cols[c].cells = table.cols[c].cells

\* C5 as stated: every column whose values are all integers gets the
\* smallest of the widths 8, 16, 32, 64 that holds them, every column with
\* a non-integral number stays 64-bit float, every non-numeric column keeps
\* its type; cells, row count and column order are those of the input.
C5_AllIntegerValued ==
    (cmd = "narrow" /\ pc \in {"once", "twice"}) =>
        /\ C5_Preserved
        /\ \A c \in 1..Len(table.cols) :
              /\ (C5_Numeric(table.cols[c]) /\ C5_AllIntegral(table.cols[c])) =>
                    once.cols[c].dtype = IntOfBits(C5_Smallest(table.cols[c].cells))
              /\ (C5_Numeric(table.cols[c]) /\ C5_SomeFraction(table.cols[c])) =>
                    once.cols[c].dtype = "double"
              /\ ~C5_Numeric(table.cols[c]) =>
                    once.cols[c].dtype = table.cols[c].dtype

\* C5 amended: every column of integer type gets the smallest of the widths
\* 8, 16, 32, 64 that holds its values, every floating-point column stays
\* 64-bit float whether or not its values are integral, every non-numeric
\* column keeps its type; cells, row count and column order are those of
\* the input.
C5_IntegerTyped ==
    (cmd = "narrow" /\ pc \in {"once", "twice"}) =>
        /\ C5_Preserved
        /\ \A c \in 1..Len(table.cols) :
              /\ table.cols[c].dtype \in IntTypes =>
                    once.cols[c].dtype = IntOfBits(C5_Smallest(table.cols[c].cells))
              /\ table.cols[c].dtype = "double" =>
                    once.cols[c].dtype = "double"
              /\ ~C5_Numeric(table.cols[c]) =>
                    once.cols[c].dtype = table.cols[c].dtype

\* [1, 300000] as integers is narrowed to 32 bits
C5_Witness ==
    /\ cmd = "narrow" /\ pc = "once"
    /\ \E c \in 1..Len(table.cols) :
          /\ table.cols[c].dtype = "int64"
          /\ table.cols[c].cells = <<IntCell(FALSE, 0, 1), IntCell(FALSE, 0, 300000)>>
          /\ once.cols[c].dtype = "int32"
    /\ \E c \in 1..Len(table.cols) :
          /\ table.cols[c].dtype = "int64"
          /\ once.cols[c].dtype = "int16"

(***************************************************************************)
(* Properties of stooq_zip_to_table (SpecStooq)                            *)
(***************************************************************************)
\* the name ends in .csv or .txt, in any case
ExtensionOk(name) ==
    /\ Len(name) >= 4
    /\ lower(SubSeq(name, Len(name) - 3, Len(name))) \in
          { <<46, 99, 115, 118>>, <<46, 116, 120, 116>> }

GoodEntry(e) == ExtensionOk(e.name) /\ read_csv_bytes(e.data).ok

Readable == cmd = "stooq" /\ input.dump.frame_ok /\ input.dump.payload.zip_ok

AllGood == SelectSeq(input.dump.payload.entries, GoodEntry)

\* the good entries among those the loop has passed
GoodSoFar == SelectSeq(SubSeq(raw.entries, 1, idx - 1), GoodEntry)

\* the frame holds the rows parsed from the entry: every column but Symbol
FrameOf(df, e) ==
    LET parsed == read_csv_bytes(e.data).val IN
    /\ df.n = parsed.n
    /\ \A c \in 1..Len(parsed.cols) :
          parsed.cols[c].name # SymbolName =>
              Has(df, parsed.cols[c].name) /\ Col(df, parsed.cols[c].name) = parsed.cols[c]
    /\ \A c \in 1..Len(df.cols) :
          df.cols[c].name # SymbolName => Has(parsed, df.cols[c].name)

\* C2: for every archive the entries without a .csv or .txt name and the
\* entries that do not parse are skipped, no entry makes the extraction
\* raise, and the result holds exactly the rows of the entries that have an
\* accepted name and parse, in archive order.
C2_ExactlyTheGoodEntries ==
    Readable =>
        /\ pc # "raised"
        /\ pc = "returned" =>
              /\ Len(frames) = Len(AllGood)
              /\ \A j \in 1..Len(frames) : FrameOf(frames[j], AllGood[j])
              /\ table.n = C1_RowsBefore(Len(frames) + 1)

BaseName(name) ==
    LET slashes == {i \in 1..Len(name) : name[i] = 47}
        start == IF slashes = {} THEN 1
                 ELSE 1 + CHOOSE i \in slashes : \A j \in slashes : j <= i
    IN SubSeq(name, start, Len(name))

UpToFirstDot(s) ==
    LET dots == {i \in 1..Len(s) : s[i] = 46}
    IN IF dots = {} THEN s
       ELSE SubSeq(s, 1, (CHOOSE i \in dots : \A j \in dots : i <= j) - 1)

ExpectedSymbol(name) == upper(UpToFirstDot(BaseName(name)))

Symbols(T) == {c \in 1..Len(T.cols) : T.cols[c].name = SymbolName}

\* C10: every row taken from a parsed entry carries, in the one column named
\* Symbol, the entry's base file name up to its first '.', upper-cased,
\* whatever directories and dots the name has and whether or not the entry
\* had a Symbol column of its own; the rows of an entry never carry the
\* symbol of another.
C10_SymbolFromName ==
    cmd = "stooq" =>
        /\ Len(frames) = Len(GoodSoFar)
        /\ \A j \in 1..Len(frames) :
              /\ Cardinality(Symbols(frames[j])) = 1
              /\ \A r \in 1..frames[j].n :
                    Col(frames[j], SymbolName).cells[r] = Str(ExpectedSymbol(GoodSoFar[j].name))
        /\ (pc = "returned" /\ frames # <<>>) =>
              /\ Cardinality(Symbols(table)) = 1
              /\ \A j \in 1..Len(frames) : \A r \in 1..frames[j].n :
                    Col(table, SymbolName).cells[C1_RowsBefore(j) + r]
                        = Str(ExpectedSymbol(GoodSoFar[j].name))

\* an entry in a directory and an entry that has a Symbol column of its own
C10_Witness ==
    /\ cmd = "stooq" /\ pc = "returned"
    /\ Len(frames) >= 2
    /\ \E i \in 1..Len(raw.entries) :
          GoodEntry(raw.entries[i]) /\ 47 \in {raw.entries[i].name[k] : k \in 1..Len(raw.entries[i].name)}
    /\ \E i \in 1..Len(raw.entries) :
          GoodEntry(raw.entries[i]) /\ Has(read_csv_bytes(raw.entries[i].data).val, SymbolName)
    /\ \E r \in 1..table.n : Col(table, SymbolName).cells[r] = Str(<<77, 83, 70, 84>>)

====
